---- MODULE Spec2Model ----
(***************************************************************************)
(* State-machine model of src/omnisharp/extension.ts: activate() wires the *)
(* OmniSharp server's lifecycle events to language feature providers, to   *)
(* the asset prompt, to the project.json warning and to start telemetry.   *)
(* The server's event bus, autoStart and stop live in ./server and are     *)
(* modelled from the way activate() uses them.                             *)
(***************************************************************************)
EXTENDS Integers, Sequences, FiniteSets, TLC

\* ---------------------------------------------------------------- bounds
\* Largest number of ServerStart events (server sessions) in one activation.
MaxStarts == 2

\* Largest number of responses (settled requests and prompts) in one run.
MaxResponses == 2

Starts == 1..MaxStarts

\* Launch targets the server may be started on.
Paths == {"a.sln", "b"}

\* Values of 'lastSolutionPathOrFolder' an earlier activation may have stored.
StoredPaths == {"old.sln"}

\* context.workspaceState.get(key) of a key that was never stored.
Undefined == "undefined"

VARIABLES
  phase,            \* "inactive" | "active" | "deactivated": position of the host
  options,          \* Options.Read(): [autoStart]; useFormatting only selects
                    \* the elements of a batch and is a parameter of
                    \* ProviderKinds, not part of the state
  suppressProjectJsonWarning, \* csharp.suppressProjectJsonWarning
  workspaceState,   \* [assetPromptDisabled, lastSolutionPathOrFolder]
  persistedAtActivate, \* workspaceState as activate() found it
  serverState,      \* "stopped" | "starting" | "running"
  launchPath,       \* payload of the most recent BeforeServerStart event
  listeners,        \* handlers subscribed on the server's event bus
  subscriptions,    \* context.subscriptions
  localDisposables, \* the array of line 50, as the sessions whose batch of
                    \* disposables (NewDisposables) it holds, in push order
  registered,       \* sessions whose batch is registered with the host
  disposeCount,     \* per session: dispose() calls on each disposable of its batch
  startCount,       \* ServerStart events so far
  lastHandler,      \* which of the handlers of lines 52/84 ran last
  telemetryReq,     \* per start: telemetry handler's workspace-info request
  telemetryCalls,   \* per start: number of requests the telemetry handler issued
  telemetryEvents,  \* per start: measures of the 'OmniSharp.Start' events sent
  telemetryInfo,    \* per start: the workspace information the telemetry
                    \* continuation was called with
  warningReq,       \* per start: warning handler's workspace-info request
  warningPrompt,    \* per start: showWarningMessage promise
  warningShown,     \* per start: number of showWarningMessage calls
  warningDotNet,    \* per start: the values of workspaceInfo.DotNet the
                    \* warning continuation read, in order
  promptItems,      \* per start: the items showWarningMessage resolved to
  channelOps,       \* per start: calls on the output channel
  assetReq,         \* per start: addAssetsIfNecessary promise
  assetCalls,       \* per start: number of addAssetsIfNecessary calls
  assetDisable,     \* per start: the promise resolved to AddAssetResult.Disable
  apdWrites,        \* values written to 'assetPromptDisabled', in order
  lateEffect,       \* some continuation took effect for a session already over
  autoStartArgs,    \* arguments of the server.autoStart calls, in order
  deactivateLog,    \* calls made by the disposable of lines 156-159, in order
  hostDisposed,     \* host registrations (commands, status, debug config) disposed
  activatePromise   \* value the promise returned by activate resolved to

vars == <<phase, options, suppressProjectJsonWarning, workspaceState,
          persistedAtActivate, serverState, launchPath, listeners,
          subscriptions, localDisposables, registered, disposeCount,
          startCount, lastHandler, telemetryReq, telemetryCalls,
          telemetryEvents, telemetryInfo, warningReq,
          warningPrompt, warningShown, warningDotNet, promptItems, channelOps, assetReq,
          assetCalls,
          assetDisable, apdWrites, lateEffect, autoStartArgs,
          deactivateLog, hostDisposed, activatePromise>>

telemetryVars == <<telemetryReq, telemetryCalls, telemetryEvents, telemetryInfo>>
warningVars ==
  <<warningReq, warningPrompt, warningShown, warningDotNet, promptItems, channelOps>>
assetVars == <<assetReq, assetCalls, assetDisable, apdWrites>>
ghostVars == <<lateEffect>>

\* ------------------------------------------------------------ sequences
SeqToSet(s) == {s[i] : i \in 1..Len(s)}

\* common.sum(items, selector), given the sequence of the selected numbers
RECURSIVE sum(_)
sum(selected) == IF selected = <<>> THEN 0 ELSE Head(selected) + sum(Tail(selected))

\* common.safeLength(arr): a missing list counts as 0
safeLength(arr) == IF arr.isNull THEN 0 ELSE arr.length

\* ------------------------------------------------- workspace information
NoFiles == [isNull |-> TRUE, length |-> 0]
Files(n) == [isNull |-> FALSE, length |-> n]
Project(files, unity, netcore) ==
  [SourceFiles |-> files, IsUnityProject |-> unity, IsNetCore |-> netcore]
Section(projects) == [present |-> TRUE, Projects |-> projects]
NoSection == [present |-> FALSE, Projects |-> <<>>]

\* Responses of the server to a workspace-information request: each section
\* is once missing, once empty and once with projects.
WorkspaceInfos ==
  { [DotNet |-> Section(<<Project(Files(2), FALSE, FALSE), Project(NoFiles, FALSE, FALSE)>>),
     MsBuild |-> Section(<<>>)],
    [DotNet |-> NoSection,
     MsBuild |-> Section(<<Project(Files(1), TRUE, FALSE), Project(Files(2), FALSE, TRUE)>>)],
    [DotNet |-> Section(<<>>), MsBuild |-> NoSection] }

\* Every workspace information with at most MaxProjects projects per section
\* and at most MaxFiles source files per project. A project.json project has
\* no project kind flags.
MaxProjects == 2
MaxFiles == 1
FileLists == {NoFiles} \cup {Files(n) : n \in 0..MaxFiles}
DotNetProjects == {Project(files, FALSE, FALSE) : files \in FileLists}
MsBuildProjects ==
  {Project(files, unity, netcore) : files \in FileLists, unity \in BOOLEAN, netcore \in BOOLEAN}
Sections(projects) ==
  {NoSection} \cup
  {Section(ps) : ps \in UNION {[1..n -> projects] : n \in 0..MaxProjects}}
AllWorkspaceInfos == [DotNet : Sections(DotNetProjects), MsBuild : Sections(MsBuildProjects)]

\* a rejected request carries no workspace information
NoResponse == [DotNet |-> NoSection, MsBuild |-> NoSection]

\* workspaceInfo.DotNet && workspaceInfo.DotNet.Projects.length > 0
HasDotNetProjects(workspaceInfo) ==
  workspaceInfo.DotNet.present /\ Len(workspaceInfo.DotNet.Projects) > 0

HasMsBuildProjects(workspaceInfo) ==
  workspaceInfo.MsBuild.present /\ Len(workspaceInfo.MsBuild.Projects) > 0

\* the selectors of lines 132-139 applied to every project
FileCounts(projects) ==
  [i \in 1..Len(projects) |-> safeLength(projects[i].SourceFiles)]
UnityFlags(projects) ==
  [i \in 1..Len(projects) |-> IF projects[i].IsUnityProject THEN 1 ELSE 0]
NetCoreFlags(projects) ==
  [i \in 1..Len(projects) |-> IF projects[i].IsNetCore THEN 1 ELSE 0]

\* f with the keys of g added (g wins): measures[key] = value
Merge(f, g) ==
  [k \in DOMAIN f \cup DOMAIN g |-> IF k \in DOMAIN g THEN g[k] ELSE f[k]]

EmptyMeasures == [k \in {} |-> 0]

DotNetMeasures(workspaceInfo) ==
  IF HasDotNetProjects(workspaceInfo)
  THEN [k \in {"projectjson.projectcount", "projectjson.filecount"} |->
          IF k = "projectjson.projectcount"
          THEN Len(workspaceInfo.DotNet.Projects)
          ELSE sum(FileCounts(workspaceInfo.DotNet.Projects))]
  ELSE EmptyMeasures

\* faulty variant: the test of line 135 without the length check
MsBuildMeasuresAnySection(workspaceInfo) ==
  IF workspaceInfo.MsBuild.present
  THEN [k \in {"msbuild.projectcount", "msbuild.filecount",
               "msbuild.unityprojectcount", "msbuild.netcoreprojectcount"} |->
          CASE k = "msbuild.projectcount" -> Len(workspaceInfo.MsBuild.Projects)
            [] k = "msbuild.filecount" -> sum(FileCounts(workspaceInfo.MsBuild.Projects))
            [] k = "msbuild.unityprojectcount" -> sum(UnityFlags(workspaceInfo.MsBuild.Projects))
            [] OTHER -> sum(NetCoreFlags(workspaceInfo.MsBuild.Projects))]
  ELSE EmptyMeasures

MsBuildMeasures(workspaceInfo) ==
  IF HasMsBuildProjects(workspaceInfo)
  THEN [k \in {"msbuild.projectcount", "msbuild.filecount",
               "msbuild.unityprojectcount", "msbuild.netcoreprojectcount"} |->
          CASE k = "msbuild.projectcount" -> Len(workspaceInfo.MsBuild.Projects)
            [] k = "msbuild.filecount" -> sum(FileCounts(workspaceInfo.MsBuild.Projects))
            [] k = "msbuild.unityprojectcount" -> sum(UnityFlags(workspaceInfo.MsBuild.Projects))
            [] OTHER -> sum(NetCoreFlags(workspaceInfo.MsBuild.Projects))]
  ELSE EmptyMeasures

\* the measures object of lines 126-140
Measures(workspaceInfo) ==
  Merge(DotNetMeasures(workspaceInfo), MsBuildMeasures(workspaceInfo))

\* results of addAssetsIfNecessary
AddAssetResults == {"NotApplicable", "Done", "Disable", "Cancelled"}

\* ------------------------------------------------------------ providers
\* kinds of the disposables one run of the start handler pushes, in order
ProviderKinds(useFormatting) ==
  <<"definitionMetadataDocumentProvider", "definition", "definitionMetadata",
    "implementation", "testManager", "codeLens", "documentHighlight",
    "documentSymbol", "reference", "hover", "rename">>
  \o (IF useFormatting THEN <<"rangeFormatting", "onTypeFormatting">> ELSE <<>>)
  \o <<"completion", "workspaceSymbol", "signatureHelp", "codeActionProvider",
       "codeActions", "diagnostics", "changeForwarding">>

\* the disposables the start handler of session s pushes onto localDisposables
NewDisposables(s, useFormatting) ==
  [i \in 1..Len(ProviderKinds(useFormatting)) |->
     <<s, ProviderKinds(useFormatting)[i]>>]

\* lines 52-82: the start handler of session s pushes its batch onto the array
PushBatch(ld, s) == Append(ld, s)

\* faulty variant: Disposable.from(localDisposables) without the spread wraps the array,
\* which has no dispose method, so nothing is disposed
DisposedByStopNoSpread(ld) == {}

\* line 86: vscode.Disposable.from(...localDisposables).dispose() disposes
\* every element of the array, that is the batch of every session in it
DisposedByStop(ld) == SeqToSet(ld)

\* ------------------------------------------------------------- activate
\* handlers activate() subscribes on the server's event bus
HandlerNames ==
  {"registerProviders", "disposeProviders", "assetPrompt", "projectJsonWarning",
   "telemetry", "storePath", "resolveActivate"}

\* faulty variant: the stored flag is not consulted
SubscribesAssetPromptAlways(ws) == TRUE

\* line 92: the asset-prompt handler is subscribed unless the flag is stored
SubscribesAssetPrompt(ws) == ~ws.assetPromptDisabled

\* line 106: the warning handler is subscribed unless the option is set
SubscribesWarning(suppress) == ~suppress

\* the disposables array when line 151 is reached (lines 52-149), in push order;
\* a subscription's disposable carries the name of its handler
DisposablesBeforeAutoStart(ws, suppress) ==
  <<"registerProviders", "disposeProviders", "commands", "status">>
  \o (IF SubscribesAssetPrompt(ws) THEN <<"assetPrompt">> ELSE <<>>)
  \o (IF SubscribesWarning(suppress) THEN <<"projectJsonWarning">> ELSE <<>>)
  \o <<"telemetry", "storePath">>

\* faulty variant: the disposable that stops the server is not pushed
DisposablesAfterAutoStartNoStop == <<"debugConfig">>

\* the disposables pushed after the autoStart call (lines 156-162)
DisposablesAfterAutoStart == <<"stopServer", "debugConfig">>

\* faulty variant: server.autoStart called before the subscription of line 149
ListenersAtEarlyAutoStart(ws, suppress) ==
  (SeqToSet(DisposablesBeforeAutoStart(ws, suppress)) \cap HandlerNames) \ {"storePath"}

\* handlers subscribed on the server when server.autoStart is called
ListenersAtAutoStart(ws, suppress) ==
  SeqToSet(DisposablesBeforeAutoStart(ws, suppress)) \cap HandlerNames

\* handlers subscribed when activate returns: those of the disposables and the
\* start handler of line 166, whose subscription is not kept
SubscribedByActivate(ws, suppress) ==
  (SeqToSet(DisposablesBeforeAutoStart(ws, suppress) \o DisposablesAfterAutoStart)
     \cap HandlerNames)
  \cup {"resolveActivate"}

\* line 149: the BeforeServerStart handler, run with the listeners ls subscribed
FireBeforeServerStart(ls, ws, path) ==
  IF "storePath" \in ls
  THEN [ws EXCEPT !.lastSolutionPathOrFolder = path]
  ELSE ws

NoStarts == [s \in Starts |-> "none"]
ZeroStarts == [s \in Starts |-> 0]

Init ==
  /\ phase = "inactive"
  /\ options \in [autoStart : BOOLEAN]
  /\ suppressProjectJsonWarning \in BOOLEAN
  /\ workspaceState \in [assetPromptDisabled : BOOLEAN,
                         lastSolutionPathOrFolder : StoredPaths]
  /\ persistedAtActivate = workspaceState
  /\ serverState = "stopped"
  /\ launchPath = Undefined
  /\ listeners = {}
  /\ subscriptions = <<>>
  /\ localDisposables = <<>>
  /\ registered = {}
  /\ disposeCount = ZeroStarts
  /\ startCount = 0
  /\ lastHandler = "none"
  /\ telemetryReq = NoStarts
  /\ telemetryCalls = ZeroStarts
  /\ telemetryEvents = [s \in Starts |-> <<>>]
  /\ telemetryInfo = [s \in Starts |-> <<>>]
  /\ warningReq = NoStarts
  /\ warningPrompt = NoStarts
  /\ warningShown = ZeroStarts
  /\ warningDotNet = [s \in Starts |-> <<>>]
  /\ promptItems = [s \in Starts |-> <<>>]
  /\ channelOps = [s \in Starts |-> <<>>]
  /\ assetReq = NoStarts
  /\ assetCalls = ZeroStarts
  /\ assetDisable = [s \in Starts |-> FALSE]
  /\ apdWrites = <<>>
  /\ lateEffect = FALSE
  /\ autoStartArgs = <<>>
  /\ deactivateLog = <<>>
  /\ hostDisposed = {}
  /\ activatePromise = Undefined

\* activate(), lines 38-166.  server.autoStart either begins the launch inside
\* the call (BeforeServerStart reaches the handlers subscribed so far) or
\* leaves it to a later Launch.
Activate ==
  /\ phase = "inactive"
  /\ phase' = "active"
  /\ persistedAtActivate' = workspaceState
  /\ subscriptions' = DisposablesBeforeAutoStart(workspaceState, suppressProjectJsonWarning)
                      \o DisposablesAfterAutoStart
  /\ listeners' = SubscribedByActivate(workspaceState, suppressProjectJsonWarning)
  /\ IF options.autoStart
     THEN /\ autoStartArgs' = Append(autoStartArgs, workspaceState.lastSolutionPathOrFolder)
          /\ \/ UNCHANGED <<serverState, launchPath, workspaceState>>
             \/ \E path \in Paths :
                  /\ serverState' = "starting"
                  /\ launchPath' = path
                  /\ workspaceState' =
                       FireBeforeServerStart(
                         ListenersAtAutoStart(workspaceState, suppressProjectJsonWarning),
                         workspaceState, path)
     ELSE UNCHANGED <<autoStartArgs, serverState, launchPath, workspaceState>>
  /\ UNCHANGED <<options, suppressProjectJsonWarning, localDisposables, registered,
                 disposeCount, startCount, lastHandler, deactivateLog,
                 hostDisposed, activatePromise>>
  /\ UNCHANGED <<telemetryVars, warningVars, assetVars, ghostVars>>

\* ------------------------------------------------------- server lifecycle
\* server.start(path): a launch begins and BeforeServerStart(path) fires
Launch(path) ==
  /\ phase = "active"
  /\ serverState = "stopped"
  /\ startCount < MaxStarts
  /\ serverState' = "starting"
  /\ launchPath' = path
  /\ workspaceState' = FireBeforeServerStart(listeners, workspaceState, path)
  /\ UNCHANGED <<phase, options, suppressProjectJsonWarning, persistedAtActivate,
                 listeners, subscriptions, localDisposables, registered,
                 disposeCount, startCount, lastHandler, autoStartArgs,
                 deactivateLog, hostDisposed, activatePromise>>
  /\ UNCHANGED <<telemetryVars, warningVars, assetVars, ghostVars>>

\* faulty variant: every start event overwrites the value (an event callback
\* in place of a promise)
ResolveLast(promise, e) == e

\* line 166: resolve(e) settles the promise returned by activate; a promise
\* that is settled ignores later calls of resolve
ResolveOnce(promise, e) == IF promise = Undefined THEN e ELSE promise

\* one more request or prompt of start s when handler h is subscribed
Issue(req, h, s) == IF h \in listeners THEN [req EXCEPT ![s] = "pending"] ELSE req
Count(calls, h, s) == IF h \in listeners THEN [calls EXCEPT ![s] = @ + 1] ELSE calls

\* the ServerStart event: every subscribed start handler runs
\* (lines 52-82, 93-100, 107-121, 125-146, 166)
ServerStart ==
  /\ serverState = "starting"
  /\ startCount < MaxStarts
  /\ serverState' = "running"
  /\ startCount' = startCount + 1
  /\ IF "registerProviders" \in listeners
     THEN /\ localDisposables' = PushBatch(localDisposables, startCount + 1)
          /\ registered' = registered \cup {startCount + 1}
          /\ lastHandler' = "start"
     ELSE UNCHANGED <<localDisposables, registered, lastHandler>>
  /\ UNCHANGED disposeCount
  /\ assetReq' = Issue(assetReq, "assetPrompt", startCount + 1)
  /\ assetCalls' = Count(assetCalls, "assetPrompt", startCount + 1)
  /\ warningReq' = Issue(warningReq, "projectJsonWarning", startCount + 1)
  /\ telemetryReq' = Issue(telemetryReq, "telemetry", startCount + 1)
  /\ telemetryCalls' = Count(telemetryCalls, "telemetry", startCount + 1)
  /\ activatePromise' = IF "resolveActivate" \in listeners
                        THEN ResolveOnce(activatePromise, launchPath)
                        ELSE activatePromise
  /\ UNCHANGED <<phase, options, suppressProjectJsonWarning, workspaceState,
                 persistedAtActivate, launchPath, listeners, subscriptions,
                 autoStartArgs, deactivateLog, hostDisposed>>
  /\ UNCHANGED <<telemetryEvents, telemetryInfo, warningPrompt, warningShown, warningDotNet,
                 promptItems, channelOps, assetDisable, apdWrites, lateEffect>>

\* ---------------------------------------------------------- ServerStop
\* the part of the state that the stop event and the disposal of
\* context.subscriptions work on
Snapshot ==
  [listeners |-> listeners, serverState |-> serverState,
   localDisposables |-> localDisposables, registered |-> registered,
   disposeCount |-> disposeCount, lastHandler |-> lastHandler,
   deactivateLog |-> deactivateLog, hostDisposed |-> hostDisposed]

Commit(st) ==
  /\ listeners' = st.listeners
  /\ serverState' = st.serverState
  /\ localDisposables' = st.localDisposables
  /\ registered' = st.registered
  /\ disposeCount' = st.disposeCount
  /\ lastHandler' = st.lastHandler
  /\ deactivateLog' = st.deactivateLog
  /\ hostDisposed' = st.hostDisposed

\* lines 84-87: the stop handler
onServerStop(st) ==
  [st EXCEPT !.registered = @ \ DisposedByStop(st.localDisposables),
             !.disposeCount = [d \in Starts |->
                                 IF d \in DisposedByStop(st.localDisposables)
                                 THEN @[d] + 1 ELSE @[d]],
             !.lastHandler = "stop"]

\* the server stops and the ServerStop event reaches the subscribed handlers;
\* start and stop events alternate, a restart being a stop and a launch
FireServerStop(st) ==
  LET stopped == [st EXCEPT !.serverState = "stopped"] IN
  IF "disposeProviders" \in st.listeners THEN onServerStop(stopped) ELSE stopped

\* the running server stops (stop or restart command, or the process exits)
ServerStop ==
  /\ serverState = "running"
  /\ Commit(FireServerStop(Snapshot))
  /\ UNCHANGED <<phase, options, suppressProjectJsonWarning, workspaceState,
                 persistedAtActivate, launchPath, subscriptions, startCount,
                 autoStartArgs, activatePromise>>
  /\ UNCHANGED <<telemetryVars, warningVars, assetVars, ghostVars>>

\* ---------------------------------------------------------- deactivation
\* lines 156-159: advisor.dispose(); server.stop().  The stop event of this
\* call is delivered within the disposal: whenever it is delivered, the
\* subscriptions disposed before this one are gone.
StopServerOnDeactivate(st) ==
  FireServerStop([st EXCEPT !.deactivateLog = @ \o <<"advisor.dispose", "server.stop">>])

\* dispose() of one element of context.subscriptions
DisposeOne(d, st) ==
  IF d \in HandlerNames THEN [st EXCEPT !.listeners = @ \ {d}]
  ELSE IF d = "stopServer" THEN StopServerOnDeactivate(st)
  ELSE [st EXCEPT !.hostDisposed = @ \cup {d}]

\* the host disposes context.subscriptions in the order they were pushed
RECURSIVE DisposeAll(_, _)
DisposeAll(subs, st) ==
  IF subs = <<>> THEN st ELSE DisposeAll(Tail(subs), DisposeOne(Head(subs), st))

Deactivate ==
  /\ phase = "active"
  /\ phase' = "deactivated"
  /\ Commit(DisposeAll(subscriptions, Snapshot))
  /\ subscriptions' = <<>>
  /\ UNCHANGED <<options, suppressProjectJsonWarning, workspaceState,
                 persistedAtActivate, launchPath, startCount,
                 autoStartArgs, activatePromise>>
  /\ UNCHANGED <<telemetryVars, warningVars, assetVars, ghostVars>>

\* ------------------------------------------------------ response handlers
\* faulty variant: the continuation is also the rejection handler, then(f, f)
ThenAlways(outcome, ran, skipped) == ran

\* promise.then(onFulfilled) with no rejection handler: the continuation's
\* effect `ran` happens only when the promise is fulfilled
ThenOnly(outcome, ran, skipped) == IF outcome = "resolved" THEN ran ELSE skipped

\* faulty variant: sendTelemetryEvent placed inside the project checks
TelemetryContinuationInsideIf(events, workspaceInfo) ==
  IF Measures(workspaceInfo) = EmptyMeasures
  THEN events ELSE Append(events, Measures(workspaceInfo))

\* faulty variant: the continuation drops the response of a server that is not running
TelemetryContinuationWhileRunning(events, workspaceInfo) ==
  IF serverState = "running" THEN Append(events, Measures(workspaceInfo)) ELSE events

\* lines 129-145: the telemetry continuation sends one event with the measures
TelemetryContinuation(events, workspaceInfo) ==
  Append(events, Measures(workspaceInfo))

\* faulty variant: one warning per project.json project
WarningsPerProject(workspaceInfo) ==
  IF HasDotNetProjects(workspaceInfo) THEN Len(workspaceInfo.DotNet.Projects) ELSE 0

\* faulty variant: the test of line 110 without the length check
WarningsForAnySection(workspaceInfo) == IF workspaceInfo.DotNet.present THEN 1 ELSE 0

\* lines 110-114: number of showWarningMessage calls of the warning continuation
WarningsFor(workspaceInfo) == IF HasDotNetProjects(workspaceInfo) THEN 1 ELSE 0

\* faulty variant: the details are written only when the user asks for them
PromptContinuationOnMoreDetail(ops, item) ==
  IF item = "More Detail" THEN ops \o <<"appendLine", "show">> ELSE ops

\* lines 115-118: the continuation of showWarningMessage; it does not look at item
PromptContinuation(ops, item) == ops \o <<"appendLine", "show">>

\* lines 95-99: the continuation of addAssetsIfNecessary, as the values it
\* passes to workspaceState.update('assetPromptDisabled', value)
AssetContinuation(result) == IF result = "Disable" THEN <<TRUE>> ELSE <<>>

\* workspaceState after the updates of 'assetPromptDisabled' in writes
Updated(ws, writes) ==
  IF writes = <<>> THEN ws ELSE [ws EXCEPT !.assetPromptDisabled = writes[Len(writes)]]

\* session s is over: the server stopped or started again since its start event
SessionOver(s) == s < startCount \/ serverState # "running"

Settled(req) == Cardinality({s \in Starts : req[s] \in {"resolved", "rejected"}})

\* responses that have arrived so far
Responses ==
  Settled(telemetryReq) + Settled(warningReq) + Settled(warningPrompt) + Settled(assetReq)

\* the telemetry handler's workspace-information request of start s settles
TelemetrySettle(s, outcome, workspaceInfo) ==
  /\ telemetryReq[s] = "pending"
  /\ Responses < MaxResponses
  /\ telemetryReq' = [telemetryReq EXCEPT ![s] = outcome]
  /\ telemetryEvents' =
       [telemetryEvents EXCEPT
          ![s] = ThenOnly(outcome, TelemetryContinuation(@, workspaceInfo), @)]
  /\ UNCHANGED <<phase, options, suppressProjectJsonWarning, workspaceState,
                 persistedAtActivate, serverState, launchPath, listeners,
                 subscriptions, localDisposables, registered, disposeCount,
                 startCount, lastHandler, autoStartArgs,
                 deactivateLog, hostDisposed, activatePromise>>
  /\ telemetryInfo' =
       [telemetryInfo EXCEPT ![s] = ThenOnly(outcome, Append(@, workspaceInfo), @)]
  /\ lateEffect' = (lateEffect \/ (telemetryEvents'[s] # telemetryEvents[s] /\ SessionOver(s)))
  /\ UNCHANGED <<telemetryCalls, warningVars, assetVars>>

TelemetryResolve == \E s \in Starts, w \in WorkspaceInfos : TelemetrySettle(s, "resolved", w)

TelemetryReject == \E s \in Starts : TelemetrySettle(s, "rejected", NoResponse)

\* the warning handler's workspace-information request of start s settles
WarningSettle(s, outcome, workspaceInfo) ==
  /\ warningReq[s] = "pending"
  /\ Responses < MaxResponses
  /\ warningReq' = [warningReq EXCEPT ![s] = outcome]
  /\ warningShown' =
       [warningShown EXCEPT ![s] = ThenOnly(outcome, @ + WarningsFor(workspaceInfo), @)]
  /\ warningPrompt' =
       [warningPrompt EXCEPT
          ![s] = ThenOnly(outcome,
                          IF WarningsFor(workspaceInfo) > 0 THEN "pending" ELSE @, @)]
  /\ warningDotNet' =
       [warningDotNet EXCEPT ![s] = ThenOnly(outcome, Append(@, workspaceInfo.DotNet), @)]
  /\ UNCHANGED <<phase, options, suppressProjectJsonWarning, workspaceState,
                 persistedAtActivate, serverState, launchPath, listeners,
                 subscriptions, localDisposables, registered, disposeCount,
                 startCount, lastHandler, autoStartArgs,
                 deactivateLog, hostDisposed, activatePromise>>
  /\ lateEffect' = (lateEffect \/ (warningShown'[s] # warningShown[s] /\ SessionOver(s)))
  /\ UNCHANGED <<promptItems, channelOps, telemetryVars, assetVars>>

WarningResolve == \E s \in Starts, w \in WorkspaceInfos : WarningSettle(s, "resolved", w)

WarningReject == \E s \in Starts : WarningSettle(s, "rejected", NoResponse)

\* the warning prompt of start s resolves: the user picked item or dismissed it
PromptResolve ==
  \E s \in Starts, item \in {"More Detail", Undefined} :
    /\ warningPrompt[s] = "pending"
    /\ Responses < MaxResponses
    /\ warningPrompt' = [warningPrompt EXCEPT ![s] = "resolved"]
    /\ promptItems' = [promptItems EXCEPT ![s] = Append(@, item)]
    /\ channelOps' = [channelOps EXCEPT ![s] = PromptContinuation(@, item)]
    /\ UNCHANGED <<phase, options, suppressProjectJsonWarning, workspaceState,
                   persistedAtActivate, serverState, launchPath, listeners,
                   subscriptions, localDisposables, registered, disposeCount,
                   startCount, lastHandler, autoStartArgs,
                   deactivateLog, hostDisposed, activatePromise>>
    /\ lateEffect' = (lateEffect \/ (channelOps'[s] # channelOps[s] /\ SessionOver(s)))
    /\ UNCHANGED <<warningReq, warningShown, warningDotNet, telemetryVars, assetVars>>

\* addAssetsIfNecessary of start s settles
AssetSettle(s, outcome, result) ==
  /\ assetReq[s] = "pending"
  /\ Responses < MaxResponses
  /\ assetReq' = [assetReq EXCEPT ![s] = outcome]
  /\ assetDisable' = [assetDisable EXCEPT ![s] = (outcome = "resolved" /\ result = "Disable")]
  /\ LET writes == ThenOnly(outcome, AssetContinuation(result), <<>>) IN
       /\ workspaceState' = Updated(workspaceState, writes)
       /\ apdWrites' = apdWrites \o writes
       /\ lateEffect' = (lateEffect \/ (writes # <<>> /\ SessionOver(s)))
  /\ UNCHANGED <<phase, options, suppressProjectJsonWarning,
                 persistedAtActivate, serverState, launchPath, listeners,
                 subscriptions, localDisposables, registered, disposeCount,
                 startCount, lastHandler, autoStartArgs,
                 deactivateLog, hostDisposed, activatePromise>>
  /\ UNCHANGED <<assetCalls, telemetryVars, warningVars>>

AssetResolve == \E s \in Starts, r \in AddAssetResults : AssetSettle(s, "resolved", r)

AssetReject == \E s \in Starts : AssetSettle(s, "rejected", "NotApplicable")

\* ------------------------------------------------------- specification
Next ==
  \/ Activate
  \/ \E path \in Paths : Launch(path)
  \/ ServerStart
  \/ ServerStop
  \/ Deactivate
  \/ TelemetryResolve
  \/ TelemetryReject
  \/ WarningResolve
  \/ WarningReject
  \/ PromptResolve
  \/ AssetResolve
  \/ AssetReject

Spec == Init /\ [][Next]_vars

\* ------------------------------------------- the measures as a function
\* The telemetry continuation of lines 129-145 applied to every workspace
\* information of AllWorkspaceInfos: the first start event of an activation
\* with the default configuration has been handled and the telemetry
\* handler's request is in flight.
MeasuresInit ==
  LET found == [assetPromptDisabled |-> FALSE, lastSolutionPathOrFolder |-> "old.sln"]
      first == [s \in Starts |-> IF s = 1 THEN "pending" ELSE "none"]
      once == [s \in Starts |-> IF s = 1 THEN 1 ELSE 0]
      nothing == [s \in Starts |-> <<>>]
  IN
  /\ phase = "active"
  /\ options = [autoStart |-> TRUE]
  /\ suppressProjectJsonWarning = FALSE
  /\ persistedAtActivate = found
  /\ workspaceState = [found EXCEPT !.lastSolutionPathOrFolder = "a.sln"]
  /\ serverState = "running"
  /\ launchPath = "a.sln"
  /\ listeners = SubscribedByActivate(found, FALSE)
  /\ subscriptions = DisposablesBeforeAutoStart(found, FALSE) \o DisposablesAfterAutoStart
  /\ localDisposables = PushBatch(<<>>, 1)
  /\ registered = {1}
  /\ disposeCount = ZeroStarts
  /\ startCount = 1
  /\ lastHandler = "start"
  /\ telemetryReq = first
  /\ telemetryCalls = once
  /\ telemetryEvents = nothing
  /\ telemetryInfo = nothing
  /\ warningReq = first
  /\ warningPrompt = NoStarts
  /\ warningShown = ZeroStarts
  /\ warningDotNet = nothing
  /\ promptItems = nothing
  /\ channelOps = nothing
  /\ assetReq = first
  /\ assetCalls = once
  /\ assetDisable = [s \in Starts |-> FALSE]
  /\ apdWrites = <<>>
  /\ lateEffect = FALSE
  /\ autoStartArgs = <<"old.sln">>
  /\ deactivateLog = <<>>
  /\ hostDisposed = {}
  /\ activatePromise = "a.sln"

\* the request is fulfilled with any workspace information and the
\* continuation sends the event
TelemetryResolveAny ==
  \E s \in Starts :
    /\ telemetryReq[s] = "pending"
    /\ \E w \in AllWorkspaceInfos : TelemetrySettle(s, "resolved", w)

MeasuresNext == TelemetryResolveAny

MeasuresSpec == MeasuresInit /\ [][MeasuresNext]_vars

\* ------------------------------------------------------------ properties
\* host registrations that are active: the elements of the registered batches
ActiveProviders(useFormatting) ==
  UNION {SeqToSet(NewDisposables(s, useFormatting)) : s \in registered}

\* the providers a start handler always registers
CoreKinds ==
  {"definition", "implementation", "codeLens", "documentHighlight",
   "documentSymbol", "workspaceSymbol", "reference", "hover", "rename",
   "completion", "signatureHelp", "codeActions", "diagnostics", "changeForwarding"}

\* C1: after the start handler ran, exactly the providers of the current
\* session are active (one set, with every feature of the list in it); after
\* the stop handler ran, no provider of any session is active.
C1_ProvidersFollowServer ==
  /\ lastHandler = "start" =>
       /\ registered = {startCount}
       /\ \A uf \in BOOLEAN :
            LET active == ActiveProviders(uf) IN
            /\ Cardinality(active) = Len(ProviderKinds(uf))
            /\ \A k \in CoreKinds : <<startCount, k>> \in active
  /\ lastHandler = "stop" =>
       /\ registered = {}
       /\ ActiveProviders(TRUE) = {}

\* the second session has ended and its stop handler has run
C1_Witness ==
  /\ startCount = MaxStarts
  /\ lastHandler = "stop"
  /\ serverState = "stopped"
  /\ phase = "active"

\* C2: every start event issues exactly one telemetry request, and a request
\* that resolved has sent exactly one 'OmniSharp.Start' event for its start;
\* a request that has not resolved has sent none.
C2_TelemetryPerStart ==
  \A s \in Starts :
    /\ telemetryCalls[s] = (IF s <= startCount THEN 1 ELSE 0)
    /\ (s <= startCount) = (telemetryReq[s] # "none")
    /\ telemetryReq[s] = "resolved" => Len(telemetryEvents[s]) = 1
    /\ telemetryReq[s] # "resolved" => Len(telemetryEvents[s]) = 0

\* the request of the first start resolved with no projects and its event is out
C2_Witness ==
  /\ telemetryReq[1] = "resolved"
  /\ telemetryEvents[1] = <<EmptyMeasures>>
  /\ telemetryReq[MaxStarts] = "pending"

TotalTelemetry == sum([s \in Starts |-> Len(telemetryEvents[s])])
TotalWarnings == sum([s \in Starts |-> warningShown[s]])

\* C3 as stated: within one activation at most one 'OmniSharp.Start' event
\* is sent and at most one migration warning is shown.
C3_OncePerActivation == TotalTelemetry <= 1 /\ TotalWarnings <= 1

\* C3 as amended: at most one event and at most one warning per server start,
\* so never more of either than there were start events.
C3_OncePerStart ==
  /\ \A s \in Starts : Len(telemetryEvents[s]) <= 1 /\ warningShown[s] <= 1
  /\ TotalTelemetry <= startCount
  /\ TotalWarnings <= startCount

\* both starts of the activation showed the migration warning
C3_Witness == \A s \in Starts : warningShown[s] = 1

Rejects(req, s) == req[s] = "pending" /\ req'[s] = "rejected"

\* C4: a rejected workspace-information request sends no event (telemetry
\* handler) and shows no warning (warning handler) for its start, and the step
\* that rejects it changes neither the providers nor the workspace state.
C4_RejectionHasNoEffect ==
  [][ /\ \A s \in Starts :
           /\ telemetryReq'[s] = "rejected" => telemetryEvents'[s] = <<>>
           /\ warningReq'[s] = "rejected" =>
                warningShown'[s] = 0 /\ warningPrompt'[s] = "none" /\ channelOps'[s] = <<>>
      /\ (\E s \in Starts : Rejects(telemetryReq, s) \/ Rejects(warningReq, s)) =>
           UNCHANGED <<registered, localDisposables, disposeCount, workspaceState,
                       telemetryEvents, warningShown, warningPrompt, channelOps>>
    ]_vars

\* both requests of the first start were rejected
C4_Witness == telemetryReq[1] = "rejected" /\ warningReq[1] = "rejected"

\* C5: the stored path is the payload of the most recent BeforeServerStart
\* event (the stored value of the earlier activation until the first one);
\* autoStart is called exactly when options.autoStart is set, once, with the
\* value that was stored when activate began.
C5_LastPathStored ==
  /\ workspaceState.lastSolutionPathOrFolder =
       (IF launchPath = Undefined
        THEN persistedAtActivate.lastSolutionPathOrFolder ELSE launchPath)
  /\ autoStartArgs =
       (IF options.autoStart /\ phase # "inactive"
        THEN <<persistedAtActivate.lastSolutionPathOrFolder>> ELSE <<>>)

\* the automatic launch went to one path and a later launch to another
C5_Witness ==
  /\ autoStartArgs = <<"old.sln">>
  /\ activatePromise = "a.sln"
  /\ serverState = "starting"
  /\ workspaceState.lastSolutionPathOrFolder = "b"

\* C6: 'assetPromptDisabled' is written only with TRUE, once per prompt that
\* resolved to Disable; it is true whenever it was true at activation or such
\* a prompt resolved; and when it was true at activation no start calls
\* addAssetsIfNecessary.
C6_AssetPromptGate ==
  /\ \A i \in 1..Len(apdWrites) : apdWrites[i] = TRUE
  /\ Len(apdWrites) = Cardinality({s \in Starts : assetDisable[s]})
  /\ workspaceState.assetPromptDisabled =
       (persistedAtActivate.assetPromptDisabled \/ \E s \in Starts : assetDisable[s])
  /\ persistedAtActivate.assetPromptDisabled =>
       \A s \in Starts : assetCalls[s] = 0 /\ assetReq[s] = "none"
  /\ ~persistedAtActivate.assetPromptDisabled =>
       \A s \in Starts : assetCalls[s] = (IF s <= startCount THEN 1 ELSE 0)

\* the flag was stored before activation and the server started twice
C6_Witness ==
  /\ persistedAtActivate.assetPromptDisabled
  /\ startCount = MaxStarts
  /\ serverState = "running"

Pending(s) ==
  <<telemetryReq[s] = "pending", warningReq[s] = "pending",
    warningPrompt[s] = "pending", assetReq[s] = "pending">>

\* C7: a start or stop event settles no request and no prompt in flight (and
\* deactivation neither), and a response takes its effect whatever the server
\* does meanwhile: a resolved telemetry request sends its event, a resolved
\* prompt writes to the channel, a prompt resolved to Disable stores the flag.
C7_NoCancellation ==
  [][ /\ (serverState' # serverState \/ startCount' # startCount \/ phase' # phase) =>
           \A s \in Starts :
             /\ \A i \in 1..4 : Pending(s)[i] => Pending(s)'[i]
             /\ telemetryEvents'[s] = telemetryEvents[s]
             /\ warningShown'[s] = warningShown[s]
             /\ channelOps'[s] = channelOps[s]
      /\ \A s \in Starts :
           /\ telemetryReq[s] = "pending" /\ telemetryReq'[s] = "resolved" =>
                Len(telemetryEvents'[s]) = Len(telemetryEvents[s]) + 1
           /\ warningPrompt[s] = "pending" /\ warningPrompt'[s] = "resolved" =>
                channelOps'[s] = channelOps[s] \o <<"appendLine", "show">>
           /\ warningReq[s] = "pending" /\ warningReq'[s] = "resolved" =>
                (warningShown'[s] = warningShown[s] + 1) = (warningPrompt'[s] = "pending")
           /\ assetReq[s] = "pending" /\ assetDisable'[s] =>
                workspaceState'.assetPromptDisabled
    ]_vars

\* the second start's telemetry is out while the first start's request is
\* still in flight, and a continuation took effect after its session was over
C7_Witness ==
  /\ startCount = MaxStarts
  /\ telemetryReq[1] = "pending"
  /\ Len(telemetryEvents[MaxStarts]) = 1
  /\ lateEffect

\* C8 as stated: once the subscriptions are disposed and the server has
\* stopped, every disposable the start handlers pushed has been disposed.
C8_NoProviderAfterDeactivate ==
  (phase = "deactivated" /\ serverState = "stopped") =>
    /\ registered = {}
    /\ \A s \in SeqToSet(localDisposables) : disposeCount[s] >= 1

\* C9: deactivation disposes the advisor and then calls server.stop, once,
\* also when the server never started; afterwards none of the handlers whose
\* subscriptions were in disposables is subscribed and the server is stopped.
C9_DeactivateStopsServer ==
  /\ phase = "deactivated" =>
       /\ deactivateLog = <<"advisor.dispose", "server.stop">>
       /\ serverState = "stopped"
       /\ listeners \cap {"registerProviders", "disposeProviders", "assetPrompt",
                          "projectJsonWarning", "telemetry", "storePath"} = {}
       /\ hostDisposed = {"commands", "status", "debugConfig"}
       /\ subscriptions = <<>>
  /\ phase # "deactivated" => deactivateLog = <<>> /\ hostDisposed = {}

\* deactivated without the server ever having been launched
C9_Witness ==
  /\ phase = "deactivated"
  /\ launchPath = Undefined
  /\ startCount = 0

\* C10 as stated: no disposable is disposed more than once, and the array
\* localDisposables holds no disposable that was already disposed.
C10_DisposedExactlyOnce ==
  /\ \A s \in Starts : disposeCount[s] <= 1
  /\ \A s \in SeqToSet(localDisposables) : disposeCount[s] = 0

\* C11: the promise returned by activate is pending until the first start
\* event, resolves with that event's payload and keeps it through later
\* starts; its start handler is subscribed from activation on, also after
\* deactivation, and its subscription is not in context.subscriptions.
C11_ActivatePromise ==
  [][ /\ startCount' = 0 => activatePromise' = Undefined
      /\ (startCount = 0 /\ startCount' = 1) => activatePromise' = launchPath
      /\ activatePromise # Undefined => activatePromise' = activatePromise
      /\ startCount' > 0 => activatePromise' \in Paths
      /\ phase' # "inactive" =>
           /\ "resolveActivate" \in listeners'
           /\ "resolveActivate" \notin SeqToSet(subscriptions')
    ]_vars

\* the promise holds the first start's payload after a second start on another
\* path, and its handler outlived deactivation
C11_Witness ==
  /\ startCount = MaxStarts
  /\ activatePromise = "a.sln"
  /\ launchPath = "b"
  /\ phase = "deactivated"
  /\ listeners = {"resolveActivate"}

\* C12: once assetPromptDisabled is true, no later server start of the
\* activation calls addAssetsIfNecessary.
C12_NoCallAfterDisable ==
  [][ (workspaceState.assetPromptDisabled /\ startCount' = startCount + 1)
        => assetCalls'[startCount'] = 0 ]_vars

\* C13: the migration warning is shown for a start exactly when the option
\* csharp.suppressProjectJsonWarning was not set at activation and the
\* workspace information resolved for the start's warning request has a DotNet
\* section with at least one project; with the option set no warning handler
\* is subscribed, a start issues the telemetry request only and shows nothing.
C13_WarningIffDotNetProjects ==
  /\ \A s \in Starts :
       /\ warningShown[s] \in {0, 1}
       /\ (warningShown[s] = 1) <=>
            /\ ~suppressProjectJsonWarning
            /\ warningReq[s] = "resolved"
            /\ Len(warningDotNet[s]) = 1
            /\ warningDotNet[s][1].present
            /\ Len(warningDotNet[s][1].Projects) >= 1
       /\ Len(warningDotNet[s]) = (IF warningReq[s] = "resolved" THEN 1 ELSE 0)
  /\ suppressProjectJsonWarning =>
       /\ "projectJsonWarning" \notin listeners
       /\ \A s \in Starts :
            /\ warningReq[s] = "none"
            /\ warningShown[s] = 0
            /\ s <= startCount => telemetryCalls[s] = 1

\* one start showed the warning for a DotNet section with projects, another
\* resolved to an empty DotNet section and showed none
C13_Witness ==
  /\ ~suppressProjectJsonWarning
  /\ \E s, t \in Starts :
       /\ warningShown[s] = 1 /\ Len(warningDotNet[s][1].Projects) >= 1
       /\ warningReq[t] = "resolved" /\ warningShown[t] = 0
       /\ warningDotNet[t] = <<Section(<<>>)>>

\* C14: the detailed message is appended to the output channel and the channel
\* is shown only once the warning prompt has resolved, and then whatever it
\* resolved to ('More Detail' or a dismissal): per warning shown, exactly one
\* appendLine followed by one show, and none while the prompt is pending.
C14_ChannelAfterPrompt ==
  \A s \in Starts :
    /\ (warningPrompt[s] # "none") <=> (warningShown[s] = 1)
    /\ warningPrompt[s] \in {"none", "pending", "resolved"}
    /\ Len(promptItems[s]) = (IF warningPrompt[s] = "resolved" THEN 1 ELSE 0)
    /\ channelOps[s] =
         (IF warningPrompt[s] = "resolved" THEN <<"appendLine", "show">> ELSE <<>>)

\* the user dismissed the warning and the details were written all the same
C14_Witness ==
  \E s \in Starts :
    /\ warningShown[s] = 1
    /\ promptItems[s] = <<Undefined>>
    /\ channelOps[s] = <<"appendLine", "show">>

\* C15: the measures of every 'OmniSharp.Start' event are a function of the
\* workspace information the request resolved with: the two projectjson keys
\* are present exactly when DotNet has a project, the four msbuild keys exactly
\* when MsBuild has one, each projectcount is the number of projects, each
\* filecount the sum of the projects' source-file counts with a missing list
\* counted as 0, the unity and netcore counts are at most msbuild.projectcount,
\* and the event is sent, with empty measures, when neither section has projects.
C15_MeasuresOfWorkspaceInfo ==
  \A s \in Starts :
    /\ Len(telemetryEvents[s]) = Len(telemetryInfo[s])
    /\ Len(telemetryInfo[s]) = (IF telemetryReq[s] = "resolved" THEN 1 ELSE 0)
    /\ telemetryReq[s] = "resolved" =>
         LET w == telemetryInfo[s][1]
             measures == telemetryEvents[s][1]
             dotNet == w.DotNet.present /\ Len(w.DotNet.Projects) >= 1
             msBuild == w.MsBuild.present /\ Len(w.MsBuild.Projects) >= 1
             files(p) == IF p.SourceFiles.isNull THEN 0 ELSE p.SourceFiles.length
             total(ps) ==
               LET upTo[i \in 0..Len(ps)] ==
                     IF i = 0 THEN 0 ELSE upTo[i - 1] + files(ps[i])
               IN upTo[Len(ps)]
         IN
         /\ DOMAIN measures =
              (IF dotNet THEN {"projectjson.projectcount", "projectjson.filecount"} ELSE {})
              \cup (IF msBuild
                    THEN {"msbuild.projectcount", "msbuild.filecount",
                          "msbuild.unityprojectcount", "msbuild.netcoreprojectcount"}
                    ELSE {})
         /\ dotNet =>
              /\ measures["projectjson.projectcount"] = Len(w.DotNet.Projects)
              /\ measures["projectjson.filecount"] = total(w.DotNet.Projects)
         /\ msBuild =>
              /\ measures["msbuild.projectcount"] = Len(w.MsBuild.Projects)
              /\ measures["msbuild.filecount"] = total(w.MsBuild.Projects)
              /\ measures["msbuild.unityprojectcount"] \in 0..measures["msbuild.projectcount"]
              /\ measures["msbuild.netcoreprojectcount"] \in 0..measures["msbuild.projectcount"]
         /\ (~dotNet /\ ~msBuild) => measures = EmptyMeasures

\* an event with all six keys was sent for a workspace in which a project
\* has no source-file list, and one project is both a Unity and a .NET Core one
C15_Witness ==
  \E s \in Starts :
    /\ telemetryReq[s] = "resolved"
    /\ DOMAIN telemetryEvents[s][1] =
         {"projectjson.projectcount", "projectjson.filecount",
          "msbuild.projectcount", "msbuild.filecount",
          "msbuild.unityprojectcount", "msbuild.netcoreprojectcount"}
    /\ telemetryInfo[s][1].DotNet.Projects = <<Project(NoFiles, FALSE, FALSE), Project(Files(1), FALSE, FALSE)>>
    /\ telemetryEvents[s][1]["projectjson.filecount"] = 1
    /\ telemetryEvents[s][1]["msbuild.projectcount"] = MaxProjects
    /\ telemetryEvents[s][1]["msbuild.unityprojectcount"] = 1
    /\ telemetryEvents[s][1]["msbuild.netcoreprojectcount"] = 1

====
